---- MODULE Spec2Model ----
(***************************************************************************)
(* Audio recording -> WebSocket streaming pipeline of the learning client. *)
(*                                                                         *)
(*   useAudioRecorder  (hook useRecorder)      : microphone + MediaRecorder *)
(*   useAudioWebSocket (hook useAudioWebSocket): socket, status protocol    *)
(*   AudioRecorder     (component)             : buffer/flush, start/stop/  *)
(*                                               cancel, finished event     *)
(*                                                                         *)
(* React specifics that the code's behaviour depends on are modelled:      *)
(*  - a useState value is written by its setter at once (the variables     *)
(*    wsStatus, recording, ...) but callbacks read the value captured by   *)
(*    the render that created them (the record "rendered");                 *)
(*  - state written by a native callback (socket, recorder, timer, promise) *)
(*    is committed by a later Render step, which also runs the effects     *)
(*    whose dependencies changed; state written by a click handler is      *)
(*    committed at the end of the click;                                    *)
(*  - a callback installed on a long-lived object (the MediaRecorder's     *)
(*    ondataavailable, a timer) keeps the values of the render in which    *)
(*    it was installed.                                                     *)
(***************************************************************************)
EXTENDS Integers, Sequences, FiniteSets, TLC

\* ---- bounds of the exploration ----
\* one recording attempt (specification Spec)
MaxStarts == 1     \* clicks on "Start Recording" / "Record New"
MaxStops == 1      \* clicks on "Stop & Save"
MaxCancels == 1    \* clicks on "Cancel"
MaxChunks == 2     \* non-empty blobs the recorders deliver
\* repeated starts (specification SpecRestart)
MaxRestarts == 3   \* clicks on "Start Recording" / "Record New"
MaxReChunks == 1   \* non-empty blobs the recorders deliver
\* the status protocol (specification SpecStatus)
MaxInbound == 3    \* status frames the server sends besides 'connected'
\* closing the channel (specification SpecClose)
MaxCloses == 1     \* calls of closeConnection on an existing channel
MaxCloseInbound == 1  \* status frames the server sends besides 'connected'
\* repeated stop and cancel (specification SpecTeardown)
MaxTeardowns == 2  \* clicks on "Stop & Save", and clicks on "Cancel"

MaxStartsBeforeStop == 2   \* clicks on "Start Recording" before a stop

VARIABLES
  \* useAudioWebSocket
  token,              \* user?.token is set
  wsStatus,           \* useState<WebSocketStatus>
  processingStatus,   \* useState<ProcessingStatus>, "null" for null
  webSocketRef,       \* index into sockets, 0 for null
  sockets,            \* every WebSocket created: [readyState, greeted]
  \* useRecorder
  supported,          \* navigator.mediaDevices.getUserMedia exists
  recording, audioUrl, error, stream,
  mediaRecorderRef,   \* index into recorders, 0 for null
  audioChunksRef,
  recorders,          \* every MediaRecorder created
  liveStreams,        \* microphone streams acquired and not yet released
  nStreams,
  gumPending,         \* getUserMedia promises not yet settled
  \* AudioRecorder
  isBufferingChunks, bufferedChunksRef,
  recordingTimerRef,  \* an interval id is stored
  intervals,          \* setInterval timers alive
  timers,             \* setTimeout callbacks pending, in creation order
  rendered,           \* state values captured by the last render
  mounted,            \* the component has not been unmounted
  \* observation
  calls,              \* sendAudioChunk / sendStatusMessage calls, in order
  finished,           \* 'session finished' events raised
  lastInbound,        \* the last frame handed to ws.onmessage
  cancelled,          \* attempts ended by cancelRecording
  captured,           \* every non-empty blob delivered, in capture order,
                      \* with the wsStatus of the moment and whether it was
                      \* the recorder's final dataavailable
  startOutcome,       \* how the last useRecorder.startRecording call went
  nStart, nStop, nCancel, nChunk, nInbound

wsVars  == <<token, wsStatus, processingStatus, webSocketRef, sockets>>
recVars == <<supported, recording, audioUrl, error, stream, mediaRecorderRef,
             audioChunksRef, recorders, liveStreams, nStreams, gumPending>>
cmpVars == <<isBufferingChunks, bufferedChunksRef, recordingTimerRef,
             intervals, timers, rendered>>
lifeVars == <<mounted>>
obsVars == <<calls, finished, lastInbound, cancelled, captured, startOutcome,
             nStart, nStop, nCancel, nChunk, nInbound>>
vars    == <<wsVars, recVars, cmpVars, obsVars, lifeVars>>

\* ---- values ----
NullUrl == [isNull |-> TRUE, blob |-> <<>>]
ObjectUrl(chunks) == [isNull |-> FALSE, blob |-> chunks]

NoMessage == [sock |-> 0, valid |-> FALSE, type |-> "", status |-> "", id |-> ""]

\* task_set_id values of an inbound frame: absent, the empty string, an id
TaskSetIds == {"undefined", "", "abc123"}
\* JavaScript truthiness of a string-or-undefined value
Truthy(v) == v \notin {"undefined", ""}

ServerStatuses == {"recording_received", "verifying", "processing",
                   "completed", "recording_cancelled"}

\* frames the server can send besides the 'connected' greeting
Inbound ==
  [valid : {TRUE}, type : {"status"}, status : ServerStatuses \ {"completed"},
   id : {"undefined"}]
  \cup [valid : {TRUE}, type : {"status"}, status : {"completed"}, id : TaskSetIds]
  \cup [valid : {TRUE}, type : {"status"}, status : {"bogus"}, id : {"undefined"}]
  \cup [valid : {TRUE}, type : {"other"}, status : {"completed"}, id : {"abc123"}]
  \cup [valid : {FALSE}, type : {""}, status : {""}, id : {"undefined"}]

Connected == [valid |-> TRUE, type |-> "status", status |-> "connected",
              id |-> "undefined"]

Snapshot(ws, buf, rec, str, url) ==
  [wsStatus |-> ws, isBufferingChunks |-> buf, recording |-> rec,
   stream |-> str, audioUrl |-> url]

Current == Snapshot(wsStatus, isBufferingChunks, recording, stream, audioUrl)

Init ==
  /\ token \in BOOLEAN
  /\ wsStatus = "disconnected"
  /\ processingStatus = "null"
  /\ webSocketRef = 0
  /\ sockets = <<>>
  /\ supported \in BOOLEAN
  /\ recording = FALSE
  /\ audioUrl = NullUrl
  /\ error = "null"
  /\ stream = 0
  /\ mediaRecorderRef = 0
  /\ audioChunksRef = <<>>
  /\ recorders = <<>>
  /\ liveStreams = {}
  /\ nStreams = 0
  /\ gumPending = {}
  /\ isBufferingChunks = FALSE
  /\ bufferedChunksRef = <<>>
  /\ recordingTimerRef = FALSE
  /\ intervals = 0
  /\ timers = <<>>
  /\ rendered = Snapshot("disconnected", FALSE, FALSE, 0, NullUrl)
  /\ mounted = TRUE
  /\ calls = <<>>
  /\ finished = <<>>
  /\ lastInbound = NoMessage
  /\ cancelled = {}
  /\ captured = <<>>
  /\ startOutcome = "none"
  /\ nStart = 0 /\ nStop = 0 /\ nCancel = 0 /\ nChunk = 0 /\ nInbound = 0


\* ---------------------------------------------------------------------------
\* useAudioWebSocket
\* ---------------------------------------------------------------------------
NewSocket == [readyState |-> "CONNECTING", greeted |-> FALSE]

\* webSocketRef.current && webSocketRef.current.readyState === WebSocket.OPEN
SocketIsOpen ==
  webSocketRef # 0 /\ sockets[webSocketRef].readyState = "OPEN"

\* WebSocket.close(): OPEN or CONNECTING becomes CLOSING, the close event
\* follows later; no effect on a CLOSING or CLOSED socket
CloseSocket(socks, s) ==
  IF s # 0 /\ socks[s].readyState \in {"CONNECTING", "OPEN"}
  THEN [socks EXCEPT ![s].readyState = "CLOSING"]
  ELSE socks

\* connectWebSocket: only an OPEN previous socket is closed; the new socket
\* replaces the reference whatever the state of the previous one
connectWebSocket ==
  IF ~token
  THEN UNCHANGED <<sockets, webSocketRef, wsStatus>>
  ELSE /\ sockets' = Append(IF SocketIsOpen
                            THEN CloseSocket(sockets, webSocketRef)
                            ELSE sockets, NewSocket)
       /\ webSocketRef' = Len(sockets) + 1
       /\ wsStatus' = "connecting"

\* one call of sendAudioChunk or sendStatusMessage: what is sent, the socket
\* webSocketRef points to, whether the readyState test passed (the frame is
\* written to the socket only then) and the wsStatus at the time of the call
ChunkFrame(chunk) ==
  [kind |-> "chunk", att |-> chunk.att, seq |-> chunk.seq, status |-> "",
   sock |-> webSocketRef, open |-> SocketIsOpen, ws |-> wsStatus]

StatusFrame(status) ==
  [kind |-> "status", att |-> 0, seq |-> 0, status |-> status,
   sock |-> webSocketRef, open |-> SocketIsOpen, ws |-> wsStatus]

sendAudioChunk(log, chunk) == Append(log, ChunkFrame(chunk))

sendStatusMessage(log, status) == Append(log, StatusFrame(status))

sendRecordingCompleted(log) == sendStatusMessage(log, "recording_completed")

sendRecordingCancelled(log) == sendStatusMessage(log, "recording_cancelled")

\* the frames that reached a socket, in the order written
wire == SelectSeq(calls, LAMBDA f : f.open)

\* ---- setTimeout ----
\* variant: the completion message is not delayed beyond the recorder's timer
DelayCompletionFirst(t) ==
  CASE t.kind = "grace"      -> 100
    [] t.kind = "completion" -> 50
    [] t.kind = "close"      -> 500
    [] t.kind = "navigate"   -> 1500

Delay(t) == CASE t.kind = "grace"      -> 100
              [] t.kind = "completion" -> 500
              [] t.kind = "close"      -> 500
              [] t.kind = "navigate"   -> 1500

\* a timeout fires after every earlier-created timeout of no longer delay
CanFire(i) == \A j \in 1..(i - 1) : Delay(timers[j]) > Delay(timers[i])

RemoveAt(seq, i) == SubSeq(seq, 1, i - 1) \o SubSeq(seq, i + 1, Len(seq))

Timer(kind, str, id) == [kind |-> kind, stream |-> str, id |-> id]

\* variant: raises the event for every completed status, with or without an id
handleStatusChangeAnyId(s, status, taskSetId) ==
  IF status = "completed"
  THEN /\ finished' = Append(finished, [sock |-> s, id |-> taskSetId])
       /\ timers' = Append(timers, Timer("navigate", 0, taskSetId))
  ELSE UNCHANGED <<finished, timers>>

\* AudioRecorder.handleStatusChange(status, taskSetId), called by socket s
handleStatusChange(s, status, taskSetId) ==
  IF status = "completed" /\ Truthy(taskSetId)
  THEN /\ finished' = Append(finished, [sock |-> s, id |-> taskSetId])
       /\ timers' = Append(timers, Timer("navigate", 0, taskSetId))
  ELSE UNCHANGED <<finished, timers>>

\* variant: no test of data.type
onmessageAnyType(s, m) ==
  IF m.valid
  THEN CASE m.status = "connected" ->
              /\ wsStatus' = "connected"
              /\ UNCHANGED <<processingStatus, finished, timers>>
         [] m.status = "completed" ->
              /\ processingStatus' = "completed"
              /\ handleStatusChange(s, "completed", m.id)
              /\ UNCHANGED wsStatus
         [] m.status \in ServerStatuses \ {"completed"} ->
              /\ processingStatus' = m.status
              /\ handleStatusChange(s, m.status, "undefined")
              /\ UNCHANGED wsStatus
         [] OTHER -> UNCHANGED <<wsStatus, processingStatus, finished, timers>>
  ELSE UNCHANGED <<wsStatus, processingStatus, finished, timers>>

\* ws.onmessage of socket s
onmessage(s, m) ==
  IF m.valid /\ m.type = "status"
  THEN CASE m.status = "connected" ->
              /\ wsStatus' = "connected"
              /\ UNCHANGED <<processingStatus, finished, timers>>
         [] m.status = "completed" ->
              /\ processingStatus' = "completed"
              /\ handleStatusChange(s, "completed", m.id)
              /\ UNCHANGED wsStatus
         [] m.status \in ServerStatuses \ {"completed"} ->
              /\ processingStatus' = m.status
              /\ handleStatusChange(s, m.status, "undefined")
              /\ UNCHANGED wsStatus
         [] OTHER -> UNCHANGED <<wsStatus, processingStatus, finished, timers>>
  ELSE UNCHANGED <<wsStatus, processingStatus, finished, timers>>

\* the handshake of socket s succeeds; ws.onopen does nothing
SocketOpen(s) ==
  /\ sockets[s].readyState = "CONNECTING"
  /\ sockets' = [sockets EXCEPT ![s].readyState = "OPEN"]
  /\ UNCHANGED <<token, wsStatus, processingStatus, webSocketRef>>
  /\ UNCHANGED <<recVars, cmpVars, obsVars>>

\* the server's 'connected' greeting arrives on socket s; a message event is
\* dispatched only while the socket is OPEN
SocketGreeting(s) ==
  /\ sockets[s].readyState = "OPEN"
  /\ ~sockets[s].greeted
  /\ sockets' = [sockets EXCEPT ![s].greeted = TRUE]
  /\ onmessage(s, Connected)
  /\ UNCHANGED <<token, webSocketRef>>
  /\ UNCHANGED recVars
  /\ UNCHANGED <<isBufferingChunks, bufferedChunksRef, recordingTimerRef,
                 intervals, rendered>>
  /\ UNCHANGED <<calls, lastInbound, cancelled, captured, startOutcome,
                 nStart, nStop, nCancel, nChunk, nInbound>>

\* another frame m arrives on socket s
SocketMessage(s, m) ==
  /\ sockets[s].readyState = "OPEN"
  /\ nInbound' = nInbound + 1
  /\ onmessage(s, m)
  /\ lastInbound' = m @@ [sock |-> s]
  /\ UNCHANGED <<token, webSocketRef, sockets>>
  /\ UNCHANGED recVars
  /\ UNCHANGED <<isBufferingChunks, bufferedChunksRef, recordingTimerRef,
                 intervals, rendered>>
  /\ UNCHANGED <<calls, cancelled, captured, startOutcome,
                 nStart, nStop, nCancel, nChunk>>

\* the connection of socket s ends (failed handshake, remote close, or the
\* completion of a close() call): readyState CLOSED, then ws.onerror if the
\* connection failed, then ws.onclose, all in one task
SocketClosed(s) ==
  /\ sockets[s].readyState # "CLOSED"
  /\ sockets' = [sockets EXCEPT ![s].readyState = "CLOSED", ![s].greeted = TRUE]
  /\ wsStatus' = "disconnected"
  /\ UNCHANGED <<token, processingStatus, webSocketRef>>
  /\ UNCHANGED <<recVars, cmpVars, obsVars>>

\* useAudioWebSocket.closeConnection when webSocketRef.current is ref
closeConnection(ref) ==
  IF ref # 0
  THEN /\ calls' = sendStatusMessage(calls, "recording_end")
       /\ timers' = Append(timers, Timer("close", 0, ""))
  ELSE UNCHANGED <<calls, timers>>

EndCalls == {j \in DOMAIN calls : calls[j].status = "recording_end"}

\* the consumer of the hook calls closeConnection() on an existing channel
CloseConnection ==
  /\ webSocketRef # 0
  /\ closeConnection(webSocketRef)
  /\ UNCHANGED <<isBufferingChunks, bufferedChunksRef, recordingTimerRef,
                 intervals, rendered>>
  /\ UNCHANGED <<finished, lastInbound, cancelled, captured, startOutcome,
                 nStart, nStop, nCancel, nChunk, nInbound>>
  /\ UNCHANGED <<wsVars, recVars>>

\* the 500 ms timer of closeConnection fires; the state setter has no effect
\* once the component is unmounted
CloseTimer(i) ==
  /\ timers[i].kind = "close"
  /\ CanFire(i)
  /\ timers' = RemoveAt(timers, i)
  /\ IF webSocketRef # 0
     THEN /\ sockets' = CloseSocket(sockets, webSocketRef)
          /\ webSocketRef' = 0
          /\ wsStatus' = IF mounted THEN "disconnected" ELSE wsStatus
     ELSE UNCHANGED <<sockets, webSocketRef, wsStatus>>
  /\ UNCHANGED <<token, processingStatus>>
  /\ UNCHANGED <<isBufferingChunks, bufferedChunksRef, recordingTimerRef,
                 intervals, rendered>>
  /\ UNCHANGED <<recVars, obsVars, lifeVars>>

\* ---------------------------------------------------------------------------
\* useRecorder
\* ---------------------------------------------------------------------------
\* the MediaRecorder created by the start whose getUserMedia request is req;
\* cb is the wsStatus captured by the onDataAvailable callback it was given,
\* rec and str the recording and stream captured by the stopRecording that
\* its onerror calls
NewRecorder(req, s) ==
  [state |-> "recording", att |-> req.att, cb |-> req.cb, stream |-> s,
   rec |-> req.rec, str |-> req.str,
   reqData |-> FALSE, stopPending |-> FALSE]

\* MediaRecorder.stop() behind the guard state !== 'inactive': the recorder
\* becomes inactive and queues its final dataavailable and stop events
StopRecorder(recs, r) ==
  IF r # 0 /\ recs[r].state # "inactive"
  THEN [recs EXCEPT ![r].state = "inactive", ![r].stopPending = TRUE]
  ELSE recs

\* stream.getTracks().forEach(track => track.stop()): a recorder whose tracks
\* have all ended stops as by stop()
StopTracks(recs, s) ==
  [r \in DOMAIN recs |->
     IF s # 0 /\ recs[r].stream = s /\ recs[r].state # "inactive"
     THEN [recs[r] EXCEPT !.state = "inactive", !.stopPending = TRUE]
     ELSE recs[r]]

ReleaseStream(live, s) == live \ {s}

\* the effect with dependencies [stream, recording, audioUrl]: its cleanup
\* runs when one of them changed, with the values of the render that
\* installed it (old) and the current mediaRecorderRef
DepsChanged(old, new) ==
  <<old.stream, old.recording, old.audioUrl>>
    # <<new.stream, new.recording, new.audioUrl>>

CleanupRecorders(old, new, recs) ==
  IF ~DepsChanged(old, new) THEN recs
  ELSE LET r1 == StopTracks(recs, old.stream)
       IN  IF old.recording THEN StopRecorder(r1, mediaRecorderRef) ELSE r1

CleanupStreams(old, new, live) ==
  IF ~DepsChanged(old, new) THEN live ELSE ReleaseStream(live, old.stream)

\* variant: no "if (recording) return" guard
startRecorderHookUnguarded(att) ==
  IF ~supported
  THEN /\ startOutcome' = "unsupported"
       /\ error' = "Your browser doesn't support audio recording"
       /\ UNCHANGED <<audioUrl, audioChunksRef, gumPending>>
  ELSE /\ startOutcome' = "requested"
       /\ audioUrl' = NullUrl
       /\ error' = "null"
       /\ audioChunksRef' = <<>>
       /\ gumPending' = gumPending \cup {[att |-> att, cb |-> rendered.wsStatus,
                                           rec |-> rendered.recording,
                                           str |-> rendered.stream]}

\* useRecorder.startRecording up to its await
startRecorderHook(att) ==
  IF rendered.recording
  THEN /\ startOutcome' = "ignored"
       /\ UNCHANGED <<audioUrl, error, audioChunksRef, gumPending>>
  ELSE IF ~supported
  THEN /\ startOutcome' = "unsupported"
       /\ error' = "Your browser doesn't support audio recording"
       /\ UNCHANGED <<audioUrl, audioChunksRef, gumPending>>
  ELSE /\ startOutcome' = "requested"
       /\ audioUrl' = NullUrl
       /\ error' = "null"
       /\ audioChunksRef' = <<>>
       /\ gumPending' = gumPending \cup {[att |-> att, cb |-> rendered.wsStatus,
                                           rec |-> rendered.recording,
                                           str |-> rendered.stream]}

\* useRecorder.startRecording returns without waiting for the microphone
StartReturnsEarly == rendered.recording \/ ~supported

\* AudioRecorder.startRecording after "await startRecorderHook()"
StartTimer ==
  /\ recordingTimerRef' = TRUE
  /\ intervals' = intervals + 1

\* if (recordingTimerRef.current) { clearInterval(...); ... = null }
ClearTimer ==
  /\ recordingTimerRef' = FALSE
  /\ intervals' = IF recordingTimerRef THEN intervals - 1 ELSE intervals

\* variant: tests the wsStatus of the moment the blob is delivered
handleAudioChunkLive(cbWsStatus, chunk) ==
  IF wsStatus = "connected"
  THEN /\ calls' = sendAudioChunk(calls, chunk)
       /\ UNCHANGED <<bufferedChunksRef, isBufferingChunks>>
  ELSE /\ bufferedChunksRef' = Append(bufferedChunksRef, chunk)
       /\ isBufferingChunks' = TRUE
       /\ UNCHANGED calls

\* ---------------------------------------------------------------------------
\* AudioRecorder
\* ---------------------------------------------------------------------------
\* AudioRecorder.handleAudioChunk as captured by a recorder: cbWsStatus is the
\* wsStatus of the render in which the recorder's start was clicked
handleAudioChunk(cbWsStatus, chunk) ==
  IF cbWsStatus = "connected"
  THEN /\ calls' = sendAudioChunk(calls, chunk)
       /\ UNCHANGED <<bufferedChunksRef, isBufferingChunks>>
  ELSE /\ bufferedChunksRef' = Append(bufferedChunksRef, chunk)
       /\ isBufferingChunks' = TRUE
       /\ UNCHANGED calls

\* bufferedChunksRef.current.forEach(chunk => sendAudioChunk(chunk))
FlushAll(log, buffer) ==
  log \o [i \in 1..Len(buffer) |-> ChunkFrame(buffer[i])]

\* the flush effect runs in a render whose wsStatus or isBufferingChunks
\* differs from the previous render's, and acts under its condition
FlushDue ==
  /\ rendered.wsStatus # wsStatus \/ rendered.isBufferingChunks # isBufferingChunks
  /\ wsStatus = "connected"
  /\ isBufferingChunks
  /\ Len(bufferedChunksRef) > 0

\* the buttons of the last render
StartVisible == ~rendered.audioUrl.isNull \/ ~rendered.recording
StopVisible  == rendered.audioUrl.isNull /\ rendered.recording

\* click on "Start Recording" / "Record New": AudioRecorder.startRecording
\* up to the await inside useRecorder.startRecording, and the render of the
\* state it wrote
ClickStart ==
  /\ rendered = Current
  /\ StartVisible
  /\ nStart' = nStart + 1
  /\ bufferedChunksRef' = <<>>
  /\ isBufferingChunks' = FALSE
  /\ connectWebSocket
  /\ startRecorderHook(nStart + 1)
  /\ IF StartReturnsEarly THEN StartTimer
     ELSE UNCHANGED <<recordingTimerRef, intervals>>
  /\ rendered' = Snapshot(wsStatus', FALSE, recording, stream, audioUrl')
  /\ recorders' = CleanupRecorders(rendered, rendered', recorders)
  /\ liveStreams' = CleanupStreams(rendered, rendered', liveStreams)
  /\ UNCHANGED <<token, processingStatus, supported, recording, stream,
                 mediaRecorderRef, nStreams, timers>>
  /\ UNCHANGED <<calls, finished, lastInbound, cancelled, captured,
                 nStop, nCancel, nChunk, nInbound>>

\* getUserMedia resolves: the rest of useRecorder.startRecording, then the
\* rest of AudioRecorder.startRecording
Grant(req) ==
  /\ req \in gumPending
  /\ gumPending' = gumPending \ {req}
  /\ nStreams' = nStreams + 1
  /\ liveStreams' = liveStreams \cup {nStreams + 1}
  /\ stream' = nStreams + 1
  /\ recorders' = Append(recorders, NewRecorder(req, nStreams + 1))
  /\ mediaRecorderRef' = Len(recorders) + 1
  /\ recording' = TRUE
  /\ StartTimer
  /\ UNCHANGED <<supported, audioUrl, error, audioChunksRef>>
  /\ UNCHANGED <<isBufferingChunks, bufferedChunksRef, timers, rendered>>
  /\ UNCHANGED <<wsVars, obsVars>>

\* variant: the catch does not set the error
DenySilent(req) ==
  /\ req \in gumPending
  /\ gumPending' = gumPending \ {req}
  /\ StartTimer
  /\ UNCHANGED <<supported, recording, audioUrl, error, stream, mediaRecorderRef,
                 audioChunksRef, recorders, liveStreams, nStreams>>
  /\ UNCHANGED <<isBufferingChunks, bufferedChunksRef, timers, rendered>>
  /\ UNCHANGED <<wsVars, obsVars>>

\* getUserMedia rejects: the catch of useRecorder.startRecording, then the
\* rest of AudioRecorder.startRecording
Deny(req) ==
  /\ req \in gumPending
  /\ gumPending' = gumPending \ {req}
  /\ error' = "Failed to start recording"
  /\ StartTimer
  /\ UNCHANGED <<supported, recording, audioUrl, stream, mediaRecorderRef,
                 audioChunksRef, recorders, liveStreams, nStreams>>
  /\ UNCHANGED <<isBufferingChunks, bufferedChunksRef, timers, rendered>>
  /\ UNCHANGED <<wsVars, obsVars>>

NextChunk(r) == [att |-> recorders[r].att, seq |-> nChunk + 1]

\* mediaRecorder.ondataavailable of recorder r with a non-empty blob
ondataavailable(r) ==
  /\ nChunk' = nChunk + 1
  /\ captured' = Append(captured, [chunk |-> NextChunk(r), ws |-> wsStatus,
                                  final |-> recorders[r].stopPending])
  /\ audioChunksRef' = Append(audioChunksRef, NextChunk(r))
  /\ handleAudioChunk(recorders[r].cb, NextChunk(r))

\* variant: no size check, the empty blob is kept in the chunk list
NoDataUnchecked ==
  /\ audioChunksRef' = Append(audioChunksRef, [att |-> 0, seq |-> 0])
  /\ UNCHANGED <<nChunk, captured, calls, bufferedChunksRef, isBufferingChunks>>

\* mediaRecorder.ondataavailable with an empty blob: the size check drops it
NoData ==
  UNCHANGED <<nChunk, captured, audioChunksRef, calls, bufferedChunksRef,
              isBufferingChunks>>

\* mediaRecorder.onstop, run on the chunk list left by the final dataavailable
onstop ==
  IF Len(audioChunksRef') = 0
  THEN /\ error' = "No audio data recorded"
       /\ UNCHANGED audioUrl
  ELSE /\ audioUrl' = ObjectUrl(audioChunksRef')
       /\ UNCHANGED error

\* recorder r delivers the blob of a 250 ms timeslice
RecorderChunk(r) ==
  /\ recorders[r].state = "recording"
  /\ ondataavailable(r)
  /\ UNCHANGED <<supported, recording, audioUrl, error, stream,
                 mediaRecorderRef, recorders, liveStreams, nStreams, gumPending>>
  /\ UNCHANGED <<recordingTimerRef, intervals, timers, rendered>>
  /\ UNCHANGED <<finished, lastInbound, cancelled, startOutcome,
                 nStart, nStop, nCancel, nInbound>>
  /\ UNCHANGED wsVars

\* recorder r delivers the blob asked for by requestData()
RecorderRequestedData(r, hasData) ==
  /\ recorders[r].reqData
  /\ recorders' = [recorders EXCEPT ![r].reqData = FALSE]
  /\ IF hasData THEN ondataavailable(r) ELSE NoData
  /\ UNCHANGED <<supported, recording, audioUrl, error, stream,
                 mediaRecorderRef, liveStreams, nStreams, gumPending>>
  /\ UNCHANGED <<recordingTimerRef, intervals, timers, rendered>>
  /\ UNCHANGED <<finished, lastInbound, cancelled, startOutcome,
                 nStart, nStop, nCancel, nInbound>>
  /\ UNCHANGED wsVars

\* recorder r, stopped, delivers its final dataavailable and then its stop
\* event, in one task
RecorderStopped(r, hasData) ==
  /\ recorders[r].stopPending
  /\ ~recorders[r].reqData
  /\ recorders' = [recorders EXCEPT ![r].stopPending = FALSE]
  /\ IF hasData THEN ondataavailable(r) ELSE NoData
  /\ onstop
  /\ UNCHANGED <<supported, recording, stream,
                 mediaRecorderRef, liveStreams, nStreams, gumPending>>
  /\ UNCHANGED <<recordingTimerRef, intervals, timers, rendered>>
  /\ UNCHANGED <<finished, lastInbound, cancelled, startOutcome,
                 nStart, nStop, nCancel, nInbound>>
  /\ UNCHANGED wsVars

\* useRecorder.stopRecording as held by the onerror handler of recorder r: it
\* reads the recording and stream of the render in which that recorder's
\* startRecording was created; requestData() is skipped, the recorder being
\* inactive by then
stopRecordingOf(r) ==
  IF ~recorders[r].rec \/ mediaRecorderRef = 0
  THEN UNCHANGED timers
  ELSE timers' = Append(timers, Timer("grace", recorders[r].str, ""))

\* recorder r fails while recording: the browser inactivates it, fires the
\* error event (mediaRecorder.onerror) and queues the final dataavailable and
\* the stop event
RecorderError(r) ==
  /\ recorders[r].state = "recording"
  /\ recorders' = [recorders EXCEPT ![r].state = "inactive",
                                    ![r].stopPending = TRUE]
  /\ error' = "Recording error"
  /\ stopRecordingOf(r)
  /\ UNCHANGED <<supported, recording, audioUrl, stream, mediaRecorderRef,
                 audioChunksRef, liveStreams, nStreams, gumPending>>
  /\ UNCHANGED <<isBufferingChunks, bufferedChunksRef, recordingTimerRef,
                 intervals, rendered>>
  /\ UNCHANGED <<wsVars, obsVars>>

\* useRecorder.stopRecording as called by the click: requestData() on a
\* recording recorder, then the 100 ms timer, which keeps the rendered stream
stopRecorderHook ==
  IF ~rendered.recording \/ mediaRecorderRef = 0
  THEN /\ UNCHANGED recorders
       /\ timers' = Append(timers, Timer("completion", 0, ""))
  ELSE /\ recorders' = IF recorders[mediaRecorderRef].state = "recording"
                       THEN [recorders EXCEPT ![mediaRecorderRef].reqData = TRUE]
                       ELSE recorders
       /\ timers' = timers \o << Timer("grace", rendered.stream, ""),
                                 Timer("completion", 0, "") >>

\* click on "Stop & Save": AudioRecorder.stopRecording
ClickStop ==
  /\ rendered = Current
  /\ StopVisible
  /\ nStop' = nStop + 1
  /\ IF rendered.wsStatus # "connected" THEN connectWebSocket
     ELSE UNCHANGED <<sockets, webSocketRef, wsStatus>>
  /\ stopRecorderHook
  /\ ClearTimer
  /\ rendered' = [rendered EXCEPT !.wsStatus = wsStatus']
  /\ UNCHANGED <<token, processingStatus>>
  /\ UNCHANGED <<supported, recording, audioUrl, error, stream, mediaRecorderRef,
                 audioChunksRef, liveStreams, nStreams, gumPending>>
  /\ UNCHANGED <<isBufferingChunks, bufferedChunksRef>>
  /\ UNCHANGED <<calls, finished, lastInbound, cancelled, captured, startOutcome,
                 nStart, nCancel, nChunk, nInbound>>

\* the 100 ms timer of useRecorder.stopRecording fires
GraceTimer(i) ==
  /\ timers[i].kind = "grace"
  /\ CanFire(i)
  /\ timers' = RemoveAt(timers, i)
  /\ recording' = FALSE
  /\ LET r1 == StopRecorder(recorders, mediaRecorderRef)
         s  == timers[i].stream
     IN  IF s # 0
         THEN /\ recorders' = StopTracks(r1, s)
              /\ liveStreams' = ReleaseStream(liveStreams, s)
              /\ stream' = 0
         ELSE /\ recorders' = r1
              /\ UNCHANGED <<liveStreams, stream>>
  /\ UNCHANGED <<supported, audioUrl, error, mediaRecorderRef,
                 audioChunksRef, nStreams, gumPending>>
  /\ UNCHANGED <<isBufferingChunks, bufferedChunksRef, recordingTimerRef,
                 intervals, rendered>>
  /\ UNCHANGED <<wsVars, obsVars>>

\* the 500 ms timer of AudioRecorder.stopRecording fires
CompletionTimer(i) ==
  /\ timers[i].kind = "completion"
  /\ CanFire(i)
  /\ timers' = RemoveAt(timers, i)
  /\ calls' = sendRecordingCompleted(calls)
  /\ UNCHANGED <<isBufferingChunks, bufferedChunksRef, recordingTimerRef,
                 intervals, rendered>>
  /\ UNCHANGED <<finished, lastInbound, cancelled, captured, startOutcome,
                 nStart, nStop, nCancel, nChunk, nInbound>>
  /\ UNCHANGED <<wsVars, recVars>>

\* useRecorder.cancelRecording goes past its first line
CancelProceeds == rendered.recording /\ mediaRecorderRef # 0

\* useRecorder.cancelRecording as called by the click
cancelRecorderHook ==
  IF ~CancelProceeds
  THEN UNCHANGED <<recording, audioUrl, audioChunksRef, stream, cancelled>>
  ELSE /\ recording' = FALSE
       /\ audioUrl' = NullUrl
       /\ audioChunksRef' = <<>>
       /\ stream' = IF rendered.stream # 0 THEN 0 ELSE stream
       /\ cancelled' = cancelled \cup {recorders[mediaRecorderRef].att}

\* the recorders and streams as useRecorder.cancelRecording leaves them
CancelRecorders ==
  IF ~CancelProceeds THEN recorders
  ELSE StopTracks(StopRecorder(recorders, mediaRecorderRef), rendered.stream)

CancelStreams ==
  IF ~CancelProceeds THEN liveStreams
  ELSE ReleaseStream(liveStreams, rendered.stream)

\* click on "Cancel": AudioRecorder.cancelRecording and the render of the
\* state it wrote
ClickCancel ==
  /\ rendered = Current
  /\ StopVisible
  /\ nCancel' = nCancel + 1
  /\ cancelRecorderHook
  /\ ClearTimer
  /\ bufferedChunksRef' = <<>>
  /\ isBufferingChunks' = FALSE
  /\ calls' = IF rendered.wsStatus = "connected"
              THEN sendRecordingCancelled(calls) ELSE calls
  /\ rendered' = Snapshot(wsStatus, FALSE, recording', stream', audioUrl')
  /\ recorders' = CleanupRecorders(rendered, rendered', CancelRecorders)
  /\ liveStreams' = CleanupStreams(rendered, rendered', CancelStreams)
  /\ UNCHANGED <<supported, error, mediaRecorderRef, nStreams, gumPending, timers>>
  /\ UNCHANGED <<finished, lastInbound, captured, startOutcome,
                 nStart, nStop, nChunk, nInbound>>
  /\ UNCHANGED wsVars

\* React commits the state written by native callbacks: the callbacks of the
\* new render capture the current values; the cleanup of the recorder effect
\* and the flush effect run when their dependencies changed
Render ==
  /\ rendered # Current
  /\ rendered' = Current
  /\ IF FlushDue
     THEN /\ calls' = FlushAll(calls, bufferedChunksRef)
          /\ bufferedChunksRef' = <<>>
          /\ isBufferingChunks' = FALSE
     ELSE UNCHANGED <<calls, bufferedChunksRef, isBufferingChunks>>
  /\ recorders' = CleanupRecorders(rendered, Current, recorders)
  /\ liveStreams' = CleanupStreams(rendered, Current, liveStreams)
  /\ UNCHANGED <<supported, recording, audioUrl, error, stream, mediaRecorderRef,
                 audioChunksRef, nStreams, gumPending>>
  /\ UNCHANGED <<recordingTimerRef, intervals, timers>>
  /\ UNCHANGED <<finished, lastInbound, cancelled, captured, startOutcome,
                 nStart, nStop, nCancel, nChunk, nInbound>>
  /\ UNCHANGED wsVars

\* the component is unmounted: the cleanups run in the order in which the
\* effects were declared: useAudioWebSocket's (close the socket, clear the
\* reference), useRecorder's (with the values of the last render), then the
\* component's (clearInterval, closeConnection(), which finds no reference)
Cleanups ==
  /\ mounted
  /\ mounted' = FALSE
  /\ sockets' = CloseSocket(sockets, webSocketRef)
  /\ webSocketRef' = 0
  /\ recorders' = LET r1 == StopTracks(recorders, rendered.stream)
                  IN  IF rendered.recording
                      THEN StopRecorder(r1, mediaRecorderRef) ELSE r1
  /\ liveStreams' = ReleaseStream(liveStreams, rendered.stream)
  /\ intervals' = IF recordingTimerRef THEN intervals - 1 ELSE intervals
  /\ calls' = calls
  /\ UNCHANGED <<token, wsStatus, processingStatus>>
  /\ UNCHANGED <<supported, recording, audioUrl, error, stream, mediaRecorderRef,
                 audioChunksRef, nStreams, gumPending>>
  /\ UNCHANGED <<isBufferingChunks, bufferedChunksRef, recordingTimerRef, rendered>>
  /\ UNCHANGED <<finished, lastInbound, cancelled, captured, startOutcome,
                 nStart, nStop, nCancel, nChunk, nInbound>>

\* the user leaves the page
Unmount == Cleanups /\ closeConnection(0)

\* the 1500 ms timer of handleStatusChange fires: navigate('/tasks/<id>')
\* replaces the page, which unmounts the component
NavigateTimer(i) ==
  /\ timers[i].kind = "navigate"
  /\ CanFire(i)
  /\ Cleanups
  /\ timers' = RemoveAt(timers, i)

\* getUserMedia resolves after the component was unmounted: the rest of
\* startRecording runs all the same; the state setters have no effect
GrantUnmounted(req) ==
  /\ ~mounted
  /\ req \in gumPending
  /\ gumPending' = gumPending \ {req}
  /\ nStreams' = nStreams + 1
  /\ liveStreams' = liveStreams \cup {nStreams + 1}
  /\ recorders' = Append(recorders, NewRecorder(req, nStreams + 1))
  /\ mediaRecorderRef' = Len(recorders) + 1
  /\ StartTimer
  /\ UNCHANGED <<supported, recording, stream, audioUrl, error, audioChunksRef>>
  /\ UNCHANGED <<isBufferingChunks, bufferedChunksRef, timers, rendered>>
  /\ UNCHANGED <<wsVars, obsVars, lifeVars>>

\* the connection of socket s ends after the component was unmounted: the
\* state setter of ws.onclose has no effect
SocketClosedUnmounted(s) ==
  /\ ~mounted
  /\ sockets[s].readyState # "CLOSED"
  /\ sockets' = [sockets EXCEPT ![s].readyState = "CLOSED", ![s].greeted = TRUE]
  /\ UNCHANGED <<token, wsStatus, processingStatus, webSocketRef>>
  /\ UNCHANGED <<recVars, cmpVars, obsVars, lifeVars>>

\* ---------------------------------------------------------------------------
\* specifications
\* ---------------------------------------------------------------------------
\* a handler or callback of the mounted component runs
Live(A) == mounted /\ A /\ UNCHANGED mounted

\* the final blob of a recorder is empty or not; not when the bound is reached
DataChoices(max) == IF nChunk < max THEN BOOLEAN ELSE {FALSE}

\* one recording attempt, every event of the recorder, the socket and the timers
Next ==
  \/ Live(nStart < MaxStarts /\ ClickStart)
  \/ \E req \in gumPending : Live(Grant(req))
  \/ \E req \in gumPending : Live(Deny(req))
  \/ \E r \in DOMAIN recorders : Live(nChunk < MaxChunks /\ RecorderChunk(r))
  \/ \E r \in DOMAIN recorders, hasData \in DataChoices(MaxChunks) :
        Live(RecorderRequestedData(r, hasData))
  \/ \E r \in DOMAIN recorders, hasData \in DataChoices(MaxChunks) :
        Live(RecorderStopped(r, hasData))
  \/ Live(nStop < MaxStops /\ ClickStop)
  \/ \E i \in DOMAIN timers : Live(GraceTimer(i))
  \/ \E i \in DOMAIN timers : Live(CompletionTimer(i))
  \/ Live(nCancel < MaxCancels /\ ClickCancel)
  \/ Live(Render)
  \/ \E s \in DOMAIN sockets : Live(SocketOpen(s))
  \/ \E s \in DOMAIN sockets : Live(SocketGreeting(s))
  \/ \E s \in DOMAIN sockets : Live(SocketClosed(s))

Spec == Init /\ [][Next]_vars

\* starts repeated while the socket connects; no stop, no cancel
NextRestart ==
  \/ Live(nStart < MaxRestarts /\ ClickStart)
  \/ \E req \in gumPending : Live(Grant(req))
  \/ \E r \in DOMAIN recorders : Live(nChunk < MaxReChunks /\ RecorderChunk(r))
  \/ \E r \in DOMAIN recorders, hasData \in DataChoices(MaxReChunks) :
        Live(RecorderStopped(r, hasData))
  \/ Live(Render)
  \/ \E s \in DOMAIN sockets : Live(SocketOpen(s))
  \/ \E s \in DOMAIN sockets : Live(SocketGreeting(s))

SpecRestart == Init /\ [][NextRestart]_vars

\* the status protocol on the sockets of one start
NextStatus ==
  \/ Live(nStart < MaxStarts /\ ClickStart)
  \/ Live(Render)
  \/ \E s \in DOMAIN sockets : Live(SocketOpen(s))
  \/ \E s \in DOMAIN sockets : Live(SocketGreeting(s))
  \/ \E s \in DOMAIN sockets, m \in Inbound : Live(nInbound < MaxInbound /\ SocketMessage(s, m))
  \/ \E s \in DOMAIN sockets : Live(SocketClosed(s))

SpecStatus == Init /\ [][NextStatus]_vars

\* one recording attempt without audio, stop and cancel clicked repeatedly
NextTeardown ==
  \/ Live(nStart < MaxStarts /\ ClickStart)
  \/ \E req \in gumPending : Live(Grant(req))
  \/ \E r \in DOMAIN recorders : Live(RecorderRequestedData(r, FALSE))
  \/ \E r \in DOMAIN recorders : Live(RecorderStopped(r, FALSE))
  \/ Live(nStop < MaxTeardowns /\ ClickStop)
  \/ \E i \in DOMAIN timers : Live(GraceTimer(i))
  \/ \E i \in DOMAIN timers : Live(CompletionTimer(i))
  \/ Live(nCancel < MaxTeardowns /\ ClickCancel)
  \/ Live(Render)
  \/ \E s \in DOMAIN sockets : Live(SocketOpen(s))
  \/ \E s \in DOMAIN sockets : Live(SocketGreeting(s))

SpecTeardown == Init /\ [][NextTeardown]_vars

\* the channel: one start, the status protocol, closeConnection, unmounting
NextClose ==
  \/ Live(nStart < MaxStarts /\ ClickStart)
  \/ Live(Render)
  \/ \E s \in DOMAIN sockets : Live(SocketOpen(s))
  \/ \E s \in DOMAIN sockets : Live(SocketGreeting(s))
  \/ \E s \in DOMAIN sockets, m \in Inbound :
        Live(nInbound < MaxCloseInbound /\ SocketMessage(s, m))
  \/ \E s \in DOMAIN sockets : Live(SocketClosed(s))
  \/ Live(Cardinality(EndCalls) < MaxCloses /\ CloseConnection)
  \/ \E i \in DOMAIN timers : CloseTimer(i)
  \/ \E i \in DOMAIN timers : NavigateTimer(i)
  \/ Unmount

SpecClose == Init /\ [][NextClose]_vars

\* start clicked again while the permission request is pending, then a stop
NextStartTwice ==
  \/ Live(nStart < MaxStartsBeforeStop /\ ClickStart)
  \/ \E req \in gumPending : Live(Grant(req))
  \/ \E r \in DOMAIN recorders : Live(nChunk < MaxReChunks /\ RecorderChunk(r))
  \/ \E r \in DOMAIN recorders : Live(RecorderRequestedData(r, FALSE))
  \/ \E r \in DOMAIN recorders : Live(RecorderStopped(r, FALSE))
  \/ Live(nStop < MaxStops /\ ClickStop)
  \/ \E i \in DOMAIN timers : Live(GraceTimer(i))
  \/ \E i \in DOMAIN timers : Live(CompletionTimer(i))
  \/ Live(Render)

SpecStartTwice == Init /\ [][NextStartTwice]_vars

\* one recording attempt in which the recorder can fail
NextDeviceError ==
  \/ Live(nStart < MaxStarts /\ ClickStart)
  \/ \E req \in gumPending : Live(Grant(req))
  \/ \E r \in DOMAIN recorders : Live(nChunk < MaxChunks /\ RecorderChunk(r))
  \/ \E r \in DOMAIN recorders : Live(RecorderError(r))
  \/ \E r \in DOMAIN recorders, hasData \in DataChoices(MaxChunks) :
        Live(RecorderRequestedData(r, hasData))
  \/ \E r \in DOMAIN recorders, hasData \in DataChoices(MaxChunks) :
        Live(RecorderStopped(r, hasData))
  \/ Live(nStop < MaxStops /\ ClickStop)
  \/ \E i \in DOMAIN timers : Live(GraceTimer(i))
  \/ \E i \in DOMAIN timers : Live(CompletionTimer(i))
  \/ Live(Render)

SpecDeviceError == Init /\ [][NextDeviceError]_vars

\* one recording attempt, and the user leaving the page at any moment
NextUnmount ==
  \/ Live(nStart < MaxStarts /\ ClickStart)
  \/ \E req \in gumPending : Live(Grant(req))
  \/ \E req \in gumPending : GrantUnmounted(req)
  \/ Live(nStop < MaxStops /\ ClickStop)
  \/ \E i \in DOMAIN timers : Live(GraceTimer(i))
  \/ \E i \in DOMAIN timers : Live(CompletionTimer(i))
  \/ Live(Render)
  \/ \E s \in DOMAIN sockets : Live(SocketOpen(s))
  \/ \E s \in DOMAIN sockets : Live(SocketGreeting(s))
  \/ \E s \in DOMAIN sockets : SocketClosedUnmounted(s)
  \/ (rendered = Current /\ Unmount)

SpecUnmount == Init /\ [][NextUnmount]_vars

TypeOK ==
  /\ wsStatus \in {"disconnected", "connecting", "connected", "error"}
  /\ webSocketRef \in 0..Len(sockets)
  /\ mediaRecorderRef \in 0..Len(recorders)
  /\ intervals \in Nat
  /\ liveStreams \subseteq 1..nStreams

\* ---------------------------------------------------------------------------
\* properties
\* ---------------------------------------------------------------------------
Range(seq) == {seq[i] : i \in DOMAIN seq}

Chunk(f) == [att |-> f.att, seq |-> f.seq]

\* the frames appended to calls by the step
NewCalls == SubSeq(calls', Len(calls) + 1, Len(calls'))

\* C1: a chunk captured in a session that is not cancelled is, at every
\* moment, still in the buffer or written to an OPEN socket; no chunk is handed
\* to sendAudioChunk while the current socket is not OPEN
C1_NoSilentDrop ==
  /\ \A i \in DOMAIN captured :
       captured[i].chunk.att \notin cancelled =>
         \/ captured[i].chunk \in Range(bufferedChunksRef)
         \/ \E j \in DOMAIN wire :
              wire[j].kind = "chunk" /\ Chunk(wire[j]) = captured[i].chunk
  /\ \A j \in DOMAIN calls : calls[j].kind = "chunk" => calls[j].open

\* the chunks of a sequence of sendAudioChunk calls
Chunks(frames) == [i \in DOMAIN frames |-> Chunk(frames[i])]

\* the step delivers a non-empty blob to ondataavailable
ChunkStep == captured' # captured

LastCaptured == captured'[Len(captured')].chunk

\* the step is a run of the flush effect: it calls sendAudioChunk without a
\* blob having been delivered
FlushStep ==
  /\ captured' = captured
  /\ \E i \in DOMAIN NewCalls : NewCalls[i].kind = "chunk"

\* C2: a chunk emitted while the channel status is not 'connected' is kept in
\* the buffer, and the flush passes the buffered chunks to sendAudioChunk, each
\* once and in capture order, leaving the buffer empty and isBufferingChunks
\* false
C2_FlushOnConnect ==
  [][ /\ (ChunkStep /\ wsStatus # "connected") =>
           /\ bufferedChunksRef' = Append(bufferedChunksRef, LastCaptured)
           /\ calls' = calls
      /\ FlushStep =>
           /\ Chunks(NewCalls) = bufferedChunksRef
           /\ bufferedChunksRef' = <<>>
           /\ isBufferingChunks' = FALSE ]_vars

\* C3: the chunks of one recording session reach the socket in capture order
C3_WireOrder ==
  \A i, j \in DOMAIN wire :
    (/\ i < j
     /\ wire[i].kind = "chunk" /\ wire[j].kind = "chunk"
     /\ wire[i].att = wire[j].att) => wire[i].seq < wire[j].seq

\* two chunks of one session were written, the later one delivered by the
\* recorder when the status was already 'connected' and the flush had not run
C3_Witness ==
  \E i, j \in DOMAIN wire :
    /\ i < j
    /\ wire[i].kind = "chunk" /\ wire[j].kind = "chunk"
    /\ wire[i].att = wire[j].att
    /\ \E k \in DOMAIN captured :
         captured[k].chunk = Chunk(wire[j]) /\ captured[k].ws = "connected"

\* C4: after cancel() no chunk of the cancelled session is passed to
\* sendAudioChunk, and the buffer is empty when cancel() returns
C4_CancelledNeverSent ==
  [][ /\ \A i \in DOMAIN NewCalls :
           NewCalls[i].kind = "chunk" => NewCalls[i].att \notin cancelled'
      /\ nCancel' # nCancel => bufferedChunksRef' = <<>> ]_vars

\* the step hands the frame lastInbound' to ws.onmessage
MessageStep == nInbound' # nInbound

IsCompleted(m) == m.valid /\ m.type = "status" /\ m.status = "completed"

\* an inbound frame that carries a task_set_id: the field is present and names
\* an id (not the empty string)
CarriesId(m) == m.id \notin {"undefined", ""}

\* C5: a status message other than completed raises no 'session finished'
\* event; a completed message carrying task_set_id = t raises it once, with t
C5_FinishedOnCompleted ==
  [][ MessageStep =>
        IF IsCompleted(lastInbound') /\ CarriesId(lastInbound')
        THEN finished' = Append(finished,
               [sock |-> lastInbound'.sock, id |-> lastInbound'.id])
        ELSE finished' = finished ]_vars

\* received, then processing, then completed with an id: one event, that id
C5_Witness ==
  /\ nInbound >= 3
  /\ IsCompleted(lastInbound)
  /\ finished = <<[sock |-> lastInbound.sock, id |-> "abc123"]>>

\* C6: one 'session finished' event per recording attempt (per connection),
\* however many status messages the server sends
C6_SingleFinished ==
  \A s \in DOMAIN sockets :
    Cardinality({i \in DOMAIN finished : finished[i].sock = s}) <= 1

\* C7: a completed message without task_set_id raises an error condition and
\* the session is not shown as completed
C7_ProtocolError ==
  (IsCompleted(lastInbound) /\ lastInbound.id = "undefined") =>
     (error # "null" /\ processingStatus # "completed")

\* C8: after cancel() the session has no artifact and no chunks, also once the
\* recorder's final events have been delivered
C8_CancelDiscards ==
  nStart \in cancelled => (audioUrl.isNull /\ audioChunksRef = <<>>)

\* C9: at most one microphone stream is held
C9_DeviceExclusive == Cardinality(liveStreams) <= 1

\* the step is a click on start
StartStep == nStart' # nStart

OpenChannels ==
  {s \in DOMAIN sockets : sockets[s].readyState \in {"CONNECTING", "OPEN"}}

\* C12: at most one WebSocket created by the component is CONNECTING or OPEN
C12_OneOpenChannel == Cardinality(OpenChannels) <= 1

\* C13: a chunk or a control message is written to the socket only while the
\* channel status is 'connected'
C13_SendsOnlyConnected ==
  \A j \in DOMAIN calls : calls[j].open => calls[j].ws = "connected"

\* C14: the chunk list is appended to only while the session is recording
C14_AppendOnlyWhileRecording ==
  [][ Len(audioChunksRef') > Len(audioChunksRef) => recording ]_vars

\* a recorder has delivered its stop event
RecorderDone ==
  \E r \in DOMAIN recorders :
    /\ recorders[r].state = "inactive"
    /\ ~recorders[r].stopPending /\ ~recorders[r].reqData

\* the step handles the stop event of a recorder
StopEventStep ==
  \E r \in DOMAIN recorders :
    recorders[r].stopPending /\ ~recorders'[r].stopPending

\* C15: start, then stop with no chunk captured, ends with the error 'No audio
\* data recorded' and without an artifact: the recorder's stop event sets the
\* error and builds no artifact, and both stay so until the next start
C15_NoAudioRecorded ==
  /\ []( (nStart = 1 /\ nStop >= 1 /\ nChunk = 0 /\ RecorderDone) =>
           (error = "No audio data recorded" /\ audioUrl.isNull) )
  /\ [][ (nStop >= 1 /\ nChunk' = 0 /\ StopEventStep) =>
           (error' = "No audio data recorded" /\ audioUrl'.isNull) ]_vars

\* stop was clicked, nothing was captured and the recorder has stopped
C15_Witness ==
  /\ nStop = 1 /\ nChunk = 0 /\ cancelled = {} /\ RecorderDone
  /\ error = "No audio data recorded"

\* the step is a click on stop
StopStep == nStop' # nStop

\* the timers set by the step
NewTimers == SubSeq(timers', Len(timers) + 1, Len(timers'))

\* the step fires the 500 ms timer k, and the 100 ms timer set by the same
\* stop, like every 100 ms timer set before k, has fired
FiresAfterGrace(k) ==
  /\ timers[k].kind = "completion"
  /\ timers' = RemoveAt(timers, k)
  /\ \A j \in 1..(k - 1) : timers[j].kind # "grace"

CompletedCalls ==
  {j \in DOMAIN calls : calls[j].status = "recording_completed"}

\* C16: a stop connects if and only if the status is not 'connected', once;
\* it asks the recorder to stop and sends nothing itself; recording_completed
\* is sent once per stop, after the recorder has been stopped; no connection
\* is attempted at any other moment
C16_StopOrdering ==
  /\ [](Len(sockets) <= nStart + nStop /\ Cardinality(CompletedCalls) <= nStop)
  /\ [][ StopStep =>
           /\ wsStatus = "connected" => sockets' = sockets
           /\ (wsStatus # "connected" /\ token) =>
                 Len(sockets') = Len(sockets) + 1
           /\ Len(NewTimers) = 2
           /\ NewTimers[1].kind = "grace" /\ NewTimers[2].kind = "completion"
           /\ NewCalls = <<>> ]_vars
  /\ [][ \A i \in DOMAIN NewCalls :
           NewCalls[i].status = "recording_completed" =>
             /\ Len(NewCalls) = 1
             /\ \E k \in DOMAIN timers : FiresAfterGrace(k)
             /\ \E r \in DOMAIN recorders : recorders[r].state = "inactive" ]_vars

\* a stop clicked while not connected has reconnected and, after both timers,
\* recording_completed was written to the new socket
C16_Witness ==
  /\ nStop = 1 /\ Len(sockets) = 2
  /\ \E j \in DOMAIN calls :
       calls[j].status = "recording_completed" /\ calls[j].open /\ calls[j].sock = 2

\* the step is a click on cancel
CancelStep == nCancel' # nCancel

\* C17: a cancel writes one recording_cancelled frame when the status is
\* 'connected' and sends nothing otherwise; no recording_cancelled is sent at
\* any other moment
C17_CancelMessage ==
  [][ /\ CancelStep =>
           IF wsStatus = "connected"
           THEN /\ Len(NewCalls) = 1
                /\ NewCalls[1].status = "recording_cancelled"
                /\ NewCalls[1].open
           ELSE NewCalls = <<>>
      /\ ~CancelStep =>
           \A i \in DOMAIN NewCalls :
             NewCalls[i].status # "recording_cancelled" ]_vars

\* the recorder's timer has fired and every recorder event has been delivered
Settled ==
  /\ \A i \in DOMAIN timers : timers[i].kind # "grace"
  /\ \A r \in DOMAIN recorders : ~recorders[r].stopPending /\ ~recorders[r].reqData

CapturedChunks == [i \in DOMAIN captured |-> captured[i].chunk]

\* C20: after a stop with at least one chunk, once the timer and the recorder's
\* events are through, the session is stopped, the microphone is released and
\* the artifact holds every captured chunk in capture order
C20_StopAssembles ==
  (nStop >= 1 /\ cancelled = {} /\ nChunk >= 1 /\ Settled) =>
     /\ ~recording
     /\ liveStreams = {}
     /\ audioUrl = ObjectUrl(CapturedChunks)

\* C11: a second stop, or a second cancel, of the same session is a no-op: it
\* changes neither the session, the sockets, the buffer, the timers nor the
\* frames sent
C11_SecondCallNoOp ==
  [][ ((StopStep /\ nStop >= 1) \/ (CancelStep /\ nCancel >= 1)) =>
        UNCHANGED <<wsVars, recVars, cmpVars, calls>> ]_vars

\* the step is a closeConnection() call on an existing channel
CloseStep == Cardinality(EndCalls') > Cardinality(EndCalls)

CloseTimers(ts) == {i \in DOMAIN ts : ts[i].kind = "close"}

\* the step is the 500 ms timer of closeConnection
CloseTimerStep == Cardinality(CloseTimers(timers')) < Cardinality(CloseTimers(timers))

\* C18: closeConnection() on an existing channel writes recording_end and
\* leaves the socket open for the 500 ms delay; the timer then closes the
\* socket, on which recording_end has been written, and sets the status to
\* 'disconnected'
C18_CloseSendsEnd ==
  [][ /\ CloseStep =>
           /\ Len(NewCalls) = 1 /\ NewCalls[1].open
           /\ sockets' = sockets
           /\ Len(NewTimers) = 1 /\ NewTimers[1].kind = "close"
      /\ (CloseTimerStep /\ webSocketRef # 0) =>
           /\ \E j \in EndCalls : calls[j].open /\ calls[j].sock = webSocketRef
           /\ sockets'[webSocketRef].readyState \in {"CLOSING", "CLOSED"}
           /\ mounted => wsStatus' = "disconnected" ]_vars

\* C19: once a session has finished, closeConnection() is called on the
\* channel at the latest when the component goes away
C19_ClosedOnFinish ==
  (finished # <<>> /\ ~mounted) => EndCalls # {}

\* C21: after a recorder's error event, once the timers and the recorder's
\* events are through, the session is not recording, the microphone is
\* released and an error is shown
C21_ErrorStops ==
  (error = "Recording error" /\ Settled) =>
     (~recording /\ liveStreams = {})

\* the step settles a getUserMedia request by a rejection
DenyStep ==
  /\ Cardinality(gumPending') < Cardinality(gumPending)
  /\ nStreams' = nStreams

\* the step is a start in an environment without a capture API
UnsupportedStep == StartStep /\ startOutcome' = "unsupported"

\* the one start of the session has failed: no capture API, or access denied
StartFailed ==
  \/ startOutcome = "unsupported"
  \/ startOutcome = "requested" /\ gumPending = {} /\ recorders = <<>>

\* C22: a start that finds no capture API, or whose microphone request is
\* denied, sets an error and changes nothing else of the session (recording,
\* recorders, streams, chunks, artifact); after the one start of a session
\* has failed the session is idle, without chunk, stream or artifact
C22_FailedStartIdle ==
  /\ [][ (DenyStep \/ UnsupportedStep) =>
           /\ error' # "null"
           /\ UNCHANGED <<recording, audioUrl>>
           /\ UNCHANGED <<recorders, liveStreams, stream, mediaRecorderRef,
                          captured, nChunk, audioChunksRef>> ]_vars
  /\ []( (nStart = 1 /\ StartFailed) =>
           /\ error # "null"
           /\ ~recording /\ audioUrl.isNull
           /\ nChunk = 0 /\ liveStreams = {} )

\* the microphone request of the one start was denied
C22_Witness ==
  /\ nStart = 1 /\ startOutcome = "requested"
  /\ gumPending = {} /\ recorders = <<>>
  /\ error = "Failed to start recording"

\* an inbound frame the client has no handling for: not JSON, not of type
\* 'status', or of a status outside the protocol
Ignorable(m) ==
  \/ ~m.valid
  \/ m.type # "status"
  \/ m.status \notin ServerStatuses \cup {"connected"}

\* C24: an inbound frame that is not JSON, not of type 'status' or of an
\* unknown status changes neither the channel status nor the processing
\* status, raises no event and leaves the sockets, the timers and the
\* recording as they are
C24_IgnoresUnknown ==
  [][ (MessageStep /\ Ignorable(lastInbound')) =>
        /\ UNCHANGED <<wsStatus, processingStatus, webSocketRef, sockets>>
        /\ UNCHANGED <<finished, timers, calls>>
        /\ UNCHANGED recVars ]_vars

\* after 'processing', a frame of another type that says completed and names
\* an id has been handled: still 'processing', no event
C24_Witness ==
  /\ nInbound >= 2
  /\ lastInbound.valid /\ lastInbound.type = "other"
  /\ lastInbound.status = "completed" /\ lastInbound.id = "abc123"
  /\ processingStatus = "processing"
  /\ finished = <<>>

\* C30: a start that fails to begin capture leaves no socket CONNECTING or
\* OPEN and no recording-duration timer; a start ignored because a recording
\* is active opens no socket, starts no timer and keeps the chunk buffer
C30_FailedStartClean ==
  /\ []( (nStart = 1 /\ StartFailed) =>
           (OpenChannels = {} /\ intervals = 0 /\ ~recordingTimerRef) )
  /\ [][ (StartStep /\ rendered.recording) =>
           /\ sockets' = sockets
           /\ intervals' = intervals
           /\ bufferedChunksRef' = bufferedChunksRef ]_vars

\* the terminal control frames written to a socket
TerminalFrames ==
  {j \in DOMAIN wire :
     wire[j].status \in {"recording_completed", "recording_cancelled"}}

\* C25: over the stops and cancels of one recording attempt at most one
\* recording_completed or recording_cancelled frame is written to a socket
C25_OneTerminalFrame ==
  nStart <= 1 => Cardinality(TerminalFrames) <= 1

\* C26: within one recording attempt no audio chunk is written to a socket
\* after the recording_completed frame
C26_CompletedIsLast ==
  nStart <= 1 =>
    \A i, j \in DOMAIN wire :
      (i < j /\ wire[i].status = "recording_completed") => wire[j].kind # "chunk"

\* after a stop nothing is pending any more: every timer has fired, every
\* recorder event is delivered, the last state is rendered (the flush effect
\* has run), and the channel is connected on an OPEN socket
StopQuiescent ==
  /\ nStart = 1 /\ nStop >= 1 /\ nCancel = 0
  /\ timers = <<>> /\ gumPending = {} /\ Settled
  /\ rendered = Current
  /\ wsStatus = "connected" /\ SocketIsOpen

\* C27: once a stop has run its course and the channel is connected, every
\* chunk of the session has been written to a socket and recording_completed
\* has been written after them (nothing that is still to happen could send it)
C27_CompletionDelivered ==
  StopQuiescent =>
    \E j \in DOMAIN wire :
      /\ wire[j].status = "recording_completed"
      /\ \A i \in DOMAIN captured :
           \E k \in 1..(j - 1) :
             wire[k].kind = "chunk" /\ Chunk(wire[k]) = captured[i].chunk

\* C28: when the status is 'connected' the current socket exists, is OPEN and
\* has received the server's 'connected' status
C28_StatusOfCurrentSocket ==
  wsStatus = "connected" =>
    /\ SocketIsOpen
    /\ sockets[webSocketRef].greeted

\* the step delivers an open, greeting or close event of socket s
SocketEventStep(s) ==
  /\ Len(sockets') = Len(sockets)
  /\ webSocketRef' = webSocketRef
  /\ sockets'[s] # sockets[s]

\* C29: an event of a socket that is no longer the current one changes neither
\* the channel status nor the processing status and raises no event
C29_SupersededSilent ==
  [][ \A s \in DOMAIN sockets :
        (SocketEventStep(s) /\ s # webSocketRef) =>
           /\ UNCHANGED <<wsStatus, processingStatus>>
           /\ UNCHANGED <<finished, timers>> ]_vars

\* C23: once the component is unmounted no socket it created is CONNECTING
\* or OPEN, and, with no microphone request pending, no stream is held
C23_UnmountReleases ==
  ~mounted =>
    /\ OpenChannels = {}
    /\ gumPending = {} => liveStreams = {}

====
